---- MODULE Spec2Model ----
(***************************************************************************)
(* Bearer-token gate, MCP request handler, request-scoped context, tool    *)
(* binder and outbound token exchange of descope/mcp-express.              *)
(*                                                                         *)
(* A JavaScript string is modelled as a sequence of atoms (short pieces of *)
(* text); the atom " " is the only one that contains a space, so that      *)
(* String.split(" "), filter(Boolean) and toLowerCase() are computed on    *)
(* the sequence the way the runtime computes them on the characters.       *)
(* An optional value is the record None or a record with its own fields.   *)
(***************************************************************************)
EXTENDS Integers, Sequences, FiniteSets, TLC

VARIABLES
    opts,        \* provider.options.verifyTokenOptions + outboundTokenConfig
    pc,          \* pc[r]: where request r is in its handling
    hdr,         \* hdr[r]: req.headers.authorization
    rawTok,      \* rawTok[r]: the token handed to descope.validateSession
    session,     \* session[r]: how validateSession settled
    req,         \* req[r]: the properties middleware staples on the request
    res,         \* res[r]: the response written for request r
    nextCalls,   \* nextCalls[r]: number of times the gate called next()
    validateCalls, \* validateCalls[r]: calls of descope.validateSession
    toolScopes,  \* requiredScopes of the tool given to registerAuthenticatedTool
    server,      \* server[r]: the McpServer created for request r
    toolOutcome, \* toolOutcome[r]: what the wrapped tool returned or threw
    cbLog,       \* cbLog[r]: the calls of the user-supplied handler cb
    xpc,         \* where the outbound token exchange call is
    xcall,       \* the function called and its arguments
    xsettled,    \* how the authority's fetchToken / fetchTokenByScopes settled
    xresult,     \* what the exchange call resolved to, or what it threw
    fetchLog,    \* the calls of fetchToken and fetchTokenByScopes, in order
    lastAttach,  \* lastAttach[c]: the arguments of the latest attachRequestContext on server c
    invLog,      \* the invocations of the registered tool function, in order
    scopeRun,    \* one run of the scope checks on a pair of scope lists
    aborted,     \* aborted[r]: the client gave request r up
    listener,    \* listener[r]: the handler registered its listener for res "close"
    resClosed,   \* resClosed[r]: the response of request r emitted "close"
    endpoints,   \* provider.descopeOAuthEndpoints
    redirects,   \* the redirects the /authorize handler answered with, in order
    coreRun      \* one run of the scope helpers of the core package

gateVars == <<pc, hdr, rawTok, session, req, res, nextCalls, validateCalls>>
mcpVars == <<server, toolOutcome, cbLog>>
xVars == <<xpc, xcall, xsettled, xresult, fetchLog>>
bVars == <<lastAttach, invLog, scopeRun>>
lifeVars == <<aborted, listener, resClosed>>
provVars == <<endpoints, redirects, coreRun>>
vars == <<opts, toolScopes, gateVars, mcpVars, xVars, bVars, lifeVars, provVars>>

----------------------------------------------------------------------------
(* Bounds and input domains *)

NumReqs == 2
MaxHdrLen == 5

Reqs == 1..NumReqs

SP == " "
None == [k |-> "none"]

\* atoms an Authorization header is built from
HdrAtoms == {"Bearer", "bEaReR", "Token", SP, "tokA"}

RECURSIVE SeqsUpTo(_, _)
SeqsUpTo(S, n) ==
    IF n = 0 THEN {<<>>}
    ELSE LET shorter == SeqsUpTo(S, n - 1)
         IN  shorter \cup {Append(s, a) : s \in {t \in shorter : Len(t) = n - 1}, a \in S}

Str(s) == [k |-> "str", s |-> s]
Arr(a) == [k |-> "arr", a |-> a]

\* a header value as the HTTP parser delivers it: no space at either end
Trimmed(s) == s = <<>> \/ (s[1] # SP /\ s[Len(s)] # SP)

\* every header of at most MaxHdrLen atoms, the empty header, and no header
AllHeaders ==
    {None} \cup {Str(s) : s \in {x \in SeqsUpTo(HdrAtoms, MaxHdrLen) : Trimmed(x)}}

\* the headers of the bearerAuth tests plus the well-formed ones
FewHeaders ==
    { None,
      Str(<<"Bearer", SP, "tokA">>),
      Str(<<"bEaReR", SP, "tokA">>),
      Str(<<"Token", SP, "tokA">>),
      Str(<<"Bearer">>) }

\* provider.serverUrl, as the URL parser sees it
ServerUrl == [origin |-> <<"https://mcp-server.example.com">>, path |-> <<"/base">>]

----------------------------------------------------------------------------
(* String primitives of the runtime *)

RECURSIVE SplitAcc(_, _, _, _, _)
SplitAcc(s, sep, i, cur, acc) ==
    IF i > Len(s) THEN Append(acc, cur)
    ELSE IF s[i] = sep THEN SplitAcc(s, sep, i + 1, <<>>, Append(acc, cur))
    ELSE SplitAcc(s, sep, i + 1, Append(cur, s[i]), acc)

\* String.prototype.split(sep): the pieces between every two separators
SplitOn(s, sep) == SplitAcc(s, sep, 1, <<>>, <<>>)

\* split(" ")
Split(s) == SplitOn(s, SP)

\* Array.prototype.filter(Boolean) on strings: drops the empty ones
FilterBoolean(segs) == SelectSeq(segs, LAMBDA x : x # <<>>)

LowerAtom(a) ==
    CASE a = "Bearer" -> "bearer"
      [] a = "bEaReR" -> "bearer"
      [] a = "Token"  -> "token"
      [] a = "tokA"   -> "toka"
      [] OTHER        -> a

\* String.prototype.toLowerCase()
ToLowerCase(s) == [i \in 1..Len(s) |-> LowerAtom(s[i])]

\* Array.prototype.includes
Includes(list, x) == \E i \in 1..Len(list) : list[i] = x

----------------------------------------------------------------------------
(* Errors (errors.js) and what a call does: return a value or throw *)

InvalidTokenError(msg)      == [cls |-> "InvalidTokenError", message |-> msg]
InsufficientScopeError(msg) == [cls |-> "InsufficientScopeError", message |-> msg]
ServerError(msg)            == [cls |-> "ServerError", message |-> msg]
\* an error that is no OAuthError: what zod's parse throws
ZodError                    == [cls |-> "ZodError", message |-> [text |-> "Required"]]

Text(t) == [text |-> t]

\* error.errorCode
ErrorCode(e) ==
    CASE e.cls = "InvalidTokenError"      -> "invalid_token"
      [] e.cls = "InsufficientScopeError" -> "insufficient_scope"
      [] e.cls = "ServerError"            -> "server_error"
      [] OTHER                            -> "unknown"

\* error.toResponseObject()
ToResponseObject(e) == [error |-> ErrorCode(e), error_description |-> e.message]

Thrown(e)   == [k |-> "throw", error |-> e]
Returned(v) == [k |-> "return", value |-> v]

----------------------------------------------------------------------------
(* The authority: descope.validateSession(token) *)

Rejected(m)      == [k |-> "rejected", reason |-> m]
Resolved(jwt, t) == [k |-> "resolved", jwt |-> jwt, token |-> t]

AudClaims ==
    { None, Str(<<>>), Str(<<"A">>), Str(<<"B">>),
      Arr(<< <<"B">>, <<"A">> >>), Arr(<< <<"B">> >>), Arr(<<>>) }

ScopeClaims ==
    { None, Str(<<>>), Str(<<"s1">>), Str(<<"s2">>),
      Str(<<"s1", SP, "s2">>), Str(<<"s2", SP, SP, "s1">>), Str(<<"s1", "s2">>) }

ResourceClaims ==
    { None, Str(<<"R">>), Str(<<"Q">>),
      Arr(<< <<"Q">>, <<"R">> >>), Arr(<< <<"Q">> >>) }

AzpClaims == { None, Str(<<"client-id">>) }

ExpClaims == {1700000000}

AllTokenClaims ==
    [aud : AudClaims, scope : ScopeClaims, resource : ResourceClaims,
     azp : AzpClaims, exp : ExpClaims]

RejectReasons == {"session validation failed", "socket hang up"}

\* every way validateSession can settle for the token it was given
AllSessions(jwt) ==
    {Rejected(m) : m \in RejectReasons} \cup {Resolved(jwt, t) : t \in AllTokenClaims}

\* the sessions of the bearerAuth tests and two failing ones
FewSessions(jwt) ==
    { Rejected("session validation failed"),
      Resolved(jwt, [aud |-> Str(<<"A">>), scope |-> Str(<<"s1", SP, "s2">>),
                     resource |-> Str(<<"R">>), azp |-> Str(<<"client-id">>),
                     exp |-> 1700000000]),
      Resolved(jwt, [aud |-> Str(<<"A">>), scope |-> Str(<<"s1">>),
                     resource |-> Str(<<"R">>), azp |-> Str(<<"client-id">>),
                     exp |-> 1700000000]) }

\* provider.projectId, the tenant
ProjectId == <<"P1">>

\* provider.options: verifyTokenOptions and outboundTokenConfig
AllOptions ==
    [audience : {None, Str(<<"A">>)},
     requiredScopes : {None, Arr(<<>>), Arr(<< <<"s1">> >>), Arr(<< <<"s1">>, <<"s2">> >>)},
     resourceIndicator : {None, Str(<<"R">>)},
     outboundTokenConfig : {None}]

FewOptions ==
    [audience : {Str(<<"A">>)},
     requiredScopes : {Arr(<< <<"s1">> >>)},
     resourceIndicator : {None},
     outboundTokenConfig : {None, [k |-> "cfg", projectId |-> <<"P1">>]}]

----------------------------------------------------------------------------
(* middleware/bearerAuth: verifyAccessToken *)

\* JavaScript truthiness of an optional string or array
Truthy(v) ==
    CASE v.k = "none" -> FALSE
      [] v.k = "str"  -> v.s # <<>>
      [] OTHER        -> TRUE

\* mutant: an array claim is compared like a string
HasValid_ScalarOnly(c, expected) == c = expected

\* Array.isArray(c) ? c.includes(expected) : c === expected
HasValid(c, expected) ==
    IF c.k = "arr" THEN Includes(c.a, expected.s) ELSE c = expected

\* lines 67-84: the audience check; None when it passes
AudienceCheck(s, o) ==
    IF ~Truthy(o.audience) THEN None
    ELSE IF ~Truthy(s.token.aud)
         THEN Thrown(InvalidTokenError(Text("Token missing audience claim")))
    ELSE IF ~HasValid(s.token.aud, o.audience)
         THEN Thrown(InvalidTokenError(
                  [text |-> "Invalid token audience. Expected: ", expected |-> o.audience.s]))
    ELSE None

\* lines 87-88: scope ? scope.split(" ").filter(Boolean) : []
TokenScopes(s) ==
    IF Truthy(s.token.scope) THEN FilterBoolean(Split(s.token.scope.s)) ELSE <<>>

\* mutant: every required scope is reported, not only the absent ones
MissingScopes_All(required, scopes) ==
    IF \E i \in DOMAIN required : ~Includes(scopes, required[i]) THEN required ELSE <<>>

\* requiredScopes.filter((scope) => !scopes.includes(scope))
MissingScopes(required, scopes) == SelectSeq(required, LAMBDA x : ~Includes(scopes, x))

\* scopes.join(", ") || "none"
JoinOrNone(scopes) == IF scopes = <<>> THEN << <<"none">> >> ELSE scopes

\* lines 90-104: the required-scope check; None when it passes
ScopeCheck(s, o) ==
    IF o.requiredScopes.k = "arr" /\ Len(o.requiredScopes.a) > 0
    THEN LET missingScopes == MissingScopes(o.requiredScopes.a, TokenScopes(s))
         IN  IF Len(missingScopes) > 0
             THEN Thrown(InsufficientScopeError(
                      [text |-> "Missing required scopes: ", missing |-> missingScopes,
                       userScopes |-> JoinOrNone(TokenScopes(s))]))
             ELSE None
    ELSE None

\* lines 106-127: the resource indicator check (RFC 8707); None when it passes
ResourceCheck(s, o) ==
    IF ~Truthy(o.resourceIndicator) THEN None
    ELSE IF ~Truthy(s.token.resource)
         THEN Thrown(InvalidTokenError(Text("Token missing resource claim")))
    ELSE IF ~HasValid(s.token.resource, o.resourceIndicator)
         THEN Thrown(InvalidTokenError(
                  [text |-> "Invalid token resource. Expected: ",
                   expected |-> o.resourceIndicator.s]))
    ELSE None

\* AuthInfoSchema.parse: token, clientId and scopes are required
AuthInfoSchemaParse(v) ==
    IF v.clientId.k = "str" THEN Returned(v) ELSE Thrown(ZodError)

\* mutant: the scopes of a principal depend on what was accepted before it
BuildAuthInfo_Stateful(s) ==
    AuthInfoSchemaParse([token |-> s.jwt, clientId |-> s.token.azp,
                         scopes |-> IF \E r \in Reqs : nextCalls[r] > 0
                                    THEN <<>> ELSE TokenScopes(s),
                         expiresAt |-> s.token.exp])

\* lines 129-136: what verifyAccessToken returns when every check passed
BuildAuthInfo(s) ==
    AuthInfoSchemaParse([token |-> s.jwt, clientId |-> s.token.azp,
                         scopes |-> TokenScopes(s), expiresAt |-> s.token.exp])

\* mutant: the rejection of the authority is passed on as it came
ValidateCatch_Leak(s) ==
    IF s.k = "rejected"
    THEN Thrown([cls |-> "Error", message |-> Text(s.reason)])
    ELSE None

\* lines 62-65: validateSession(token).catch(() => { throw ... })
ValidateCatch(s) ==
    IF s.k = "rejected"
    THEN Thrown(InvalidTokenError(Text("Failed to validate token")))
    ELSE None

\* mutant: the resource indicator is not checked
verifyAccessToken_NoResource(s, o) ==
    IF ValidateCatch(s) # None THEN ValidateCatch(s)
    ELSE IF AudienceCheck(s, o) # None THEN AudienceCheck(s, o)
    ELSE IF ScopeCheck(s, o) # None THEN ScopeCheck(s, o)
    ELSE BuildAuthInfo(s)

\* mutant: the scopes are checked before the audience
verifyAccessToken_ScopesFirst(s, o) ==
    IF ValidateCatch(s) # None THEN ValidateCatch(s)
    ELSE IF ScopeCheck(s, o) # None THEN ScopeCheck(s, o)
    ELSE IF AudienceCheck(s, o) # None THEN AudienceCheck(s, o)
    ELSE IF ResourceCheck(s, o) # None THEN ResourceCheck(s, o)
    ELSE BuildAuthInfo(s)

\* verifyAccessToken, from the moment validateSession has settled as s
verifyAccessToken(s, o) ==
    IF ValidateCatch(s) # None THEN ValidateCatch(s)
    ELSE IF AudienceCheck(s, o) # None THEN AudienceCheck(s, o)
    ELSE IF ScopeCheck(s, o) # None THEN ScopeCheck(s, o)
    ELSE IF ResourceCheck(s, o) # None THEN ResourceCheck(s, o)
    ELSE BuildAuthInfo(s)

----------------------------------------------------------------------------
(* middleware/bearerAuth: handleAuthError and the middleware itself *)

\* new URL(path, base).href for a path that starts with "/"
UrlHref(path, base) == base.origin \o path

\* mutant: the header of the older middleware, without resource_metadata
WwwAuthenticate_NoMetadata(e, url) ==
    [scheme |-> "Bearer", error |-> ErrorCode(e), error_description |-> e.message,
     resource_metadata |-> <<>>]

WwwAuthenticate(e, url) ==
    [scheme |-> "Bearer", error |-> ErrorCode(e), error_description |-> e.message,
     resource_metadata |-> url]

Response(status, www, body) == [status |-> status, www |-> www, body |-> body]

IsOAuthError(e) == e.cls \in {"InvalidTokenError", "InsufficientScopeError", "ServerError", "OAuthError"}

\* handleAuthError(error, res, provider): the response it writes
handleAuthError(e, serverUrl) ==
    LET resourceMetadataUrl == UrlHref(<<"/.well-known/oauth-protected-resource">>, serverUrl)
    IN  IF e.cls = "InvalidTokenError"
        THEN Response(401, WwwAuthenticate(e, resourceMetadataUrl), ToResponseObject(e))
        ELSE IF e.cls = "InsufficientScopeError"
        THEN Response(403, WwwAuthenticate(e, resourceMetadataUrl), ToResponseObject(e))
        ELSE IF e.cls = "ServerError"
        THEN Response(500, None, ToResponseObject(e))
        ELSE IF IsOAuthError(e)
        THEN Response(400, None, ToResponseObject(e))
        ELSE Response(500, None, ToResponseObject(ServerError(Text("Internal Server Error"))))

\* mutant: a missing header is reported as a malformed one
ParseAuthorization_NoMissing(h) ==
    IF ~Truthy(h)
    THEN Thrown(InvalidTokenError(
             Text("Invalid Authorization header format, expected 'Bearer TOKEN'")))
    ELSE LET parts == Split(h.s)
             token == IF Len(parts) >= 2 THEN Str(parts[2]) ELSE None
         IN  IF ToLowerCase(parts[1]) # <<"bearer">> \/ ~Truthy(token)
             THEN Thrown(InvalidTokenError(
                      Text("Invalid Authorization header format, expected 'Bearer TOKEN'")))
             ELSE Returned(token.s)

\* mutant: the scheme is compared without lowering its case
ParseAuthorization_CaseSensitive(h) ==
    IF ~Truthy(h)
    THEN Thrown(InvalidTokenError(Text("Missing Authorization header")))
    ELSE LET parts == Split(h.s)
             token == IF Len(parts) >= 2 THEN Str(parts[2]) ELSE None
         IN  IF parts[1] # <<"Bearer">> \/ ~Truthy(token)
             THEN Thrown(InvalidTokenError(
                      Text("Invalid Authorization header format, expected 'Bearer TOKEN'")))
             ELSE Returned(token.s)

\* lines 36-46: the header checks; the token, or the error thrown
ParseAuthorization(h) ==
    IF ~Truthy(h)
    THEN Thrown(InvalidTokenError(Text("Missing Authorization header")))
    ELSE LET parts == Split(h.s)
             type  == parts[1]
             token == IF Len(parts) >= 2 THEN Str(parts[2]) ELSE None
         IN  IF ToLowerCase(type) # <<"bearer">> \/ ~Truthy(token)
             THEN Thrown(InvalidTokenError(
                      Text("Invalid Authorization header format, expected 'Bearer TOKEN'")))
             ELSE Returned(token.s)

NoReq == [auth |-> None, authInfo |-> None]

\* a request arrives with a header from H; the middleware runs up to its await
GateStart(r, H) ==
    /\ pc[r] = "idle"
    /\ \E h \in H :
        /\ hdr' = [hdr EXCEPT ![r] = h]
        /\ LET p == ParseAuthorization(h)
           IN  IF p.k = "throw"
               THEN /\ res' = [res EXCEPT ![r] = handleAuthError(p.error, ServerUrl)]
                    /\ pc' = [pc EXCEPT ![r] = "responded"]
                    /\ UNCHANGED <<rawTok, validateCalls>>
               ELSE /\ rawTok' = [rawTok EXCEPT ![r] = Str(p.value)]
                    /\ validateCalls' = [validateCalls EXCEPT ![r] = @ + 1]
                    /\ pc' = [pc EXCEPT ![r] = "verifying"]
                    /\ UNCHANGED res
    /\ UNCHANGED <<opts, toolScopes, session, req, nextCalls, mcpVars, xVars, bVars, lifeVars, provVars>>

\* mutant: after the error response the next stage is invoked all the same
GateResume_NextOnReject(r, S) ==
    /\ pc[r] = "verifying"
    /\ \E s \in S :
        /\ session' = [session EXCEPT ![r] = s]
        /\ LET v == verifyAccessToken(s, opts)
           IN  IF v.k = "return"
               THEN /\ req' = [req EXCEPT ![r].auth = v.value]
                    /\ pc' = [pc EXCEPT ![r] = "next"]
                    /\ UNCHANGED res
               ELSE /\ res' = [res EXCEPT ![r] = handleAuthError(v.error, ServerUrl)]
                    /\ pc' = [pc EXCEPT ![r] = "responded"]
                    /\ UNCHANGED req
    /\ nextCalls' = [nextCalls EXCEPT ![r] = @ + 1]
    /\ UNCHANGED <<opts, toolScopes, hdr, rawTok, validateCalls, mcpVars, xVars, bVars,
                   lifeVars, provVars>>

\* validateSession settles as one of S; the middleware runs to its end
GateResume(r, S) ==
    /\ pc[r] = "verifying"
    /\ \E s \in S :
        /\ session' = [session EXCEPT ![r] = s]
        /\ LET v == verifyAccessToken(s, opts)
           IN  IF v.k = "return"
               THEN /\ req' = [req EXCEPT ![r].auth = v.value]
                    /\ nextCalls' = [nextCalls EXCEPT ![r] = @ + 1]
                    /\ pc' = [pc EXCEPT ![r] = "next"]
                    /\ UNCHANGED res
               ELSE /\ res' = [res EXCEPT ![r] = handleAuthError(v.error, ServerUrl)]
                    /\ pc' = [pc EXCEPT ![r] = "responded"]
                    /\ UNCHANGED <<req, nextCalls>>
    /\ UNCHANGED <<opts, toolScopes, hdr, rawTok, validateCalls, mcpVars, xVars, bVars, lifeVars, provVars>>

\* the client gives the request up while validateSession is awaited; the
\* middleware listens to no event of the request
Abort(r) ==
    /\ pc[r] = "verifying"
    /\ ~aborted[r]
    /\ aborted' = [aborted EXCEPT ![r] = TRUE]
    /\ UNCHANGED <<opts, toolScopes, gateVars, mcpVars, xVars, bVars, listener, resClosed,
                   provVars>>

----------------------------------------------------------------------------
(* utils/requestContext, handlers/mcpServer and the tool binder of utils.ts *)

NewServer == [ctx |-> None, closed |-> FALSE]

\* mutant: a context already on the server is kept
attachRequestContext_KeepFirst(srv, authInfo, descopeConfig) ==
    IF srv.ctx # None THEN srv
    ELSE [srv EXCEPT !.ctx = [authInfo |-> authInfo, descopeConfig |-> descopeConfig]]

\* attachRequestContext(server, authInfo, descopeConfig)
attachRequestContext(srv, authInfo, descopeConfig) ==
    [srv EXCEPT !.ctx = [authInfo |-> authInfo, descopeConfig |-> descopeConfig]]

\* mutant: the context is kept in one place for the whole process
getRequestContext_Shared(srv) ==
    IF server[1] = None THEN srv.ctx ELSE server[1].ctx

\* getRequestContext(server)
getRequestContext(srv) == srv.ctx

\* the property of the request the handler takes the auth info from
HandlerAuthInfo(rq) == rq.authInfo

\* createMcpServerHandler, lines 53-70: the server of one request with its context
McpServerFor(rq, descopeConfig) ==
    LET authInfo == HandlerAuthInfo(rq)
    IN  IF authInfo # None
        THEN attachRequestContext(NewServer, authInfo, descopeConfig)
        ELSE NewServer

AuthRequiredError == [cls |-> "Error", message |-> Text("Authentication required for tool")]

ToolScopeError(required, scopes, missing) ==
    [cls |-> "Error",
     message |-> [text |-> "Tool requires scopes", required |-> required,
                  userScopes |-> JoinOrNone(scopes), missing |-> missing]]

\* mutant: the tool runs whether or not there is a context
wrapped_NoContextCheck(srv, requiredScopes, args, ret) ==
    [result |-> Returned(ret),
     calls |-> << [args |-> args, authInfo |-> None, descopeConfig |-> None] >>]

\* mutant: the required scopes are not checked again
wrapped_NoScopeCheck(srv, requiredScopes, args, ret) ==
    IF srv.ctx = None \/ srv.ctx.authInfo = None
    THEN [result |-> Thrown(AuthRequiredError), calls |-> <<>>]
    ELSE [result |-> Returned(ret),
          calls |-> << [args |-> args, authInfo |-> srv.ctx.authInfo,
                        descopeConfig |-> srv.ctx.descopeConfig] >>]

\* mutant: the exchange function is handed over without the configuration
wrapped_ForgetsConfig(srv, requiredScopes, args, ret) ==
    IF srv.ctx = None \/ srv.ctx.authInfo = None
    THEN [result |-> Thrown(AuthRequiredError), calls |-> <<>>]
    ELSE IF \E i \in DOMAIN requiredScopes : ~Includes(srv.ctx.authInfo.scopes, requiredScopes[i])
    THEN [result |-> Thrown(ToolScopeError(requiredScopes, srv.ctx.authInfo.scopes,
                                SelectSeq(requiredScopes,
                                          LAMBDA x : ~Includes(srv.ctx.authInfo.scopes, x)))),
          calls |-> <<>>]
    ELSE [result |-> Returned(ret),
          calls |-> << [args |-> args, authInfo |-> srv.ctx.authInfo,
                        descopeConfig |-> None] >>]

\* the tool function registerAuthenticatedTool registers on the server: what it
\* returns or throws, and the calls of the user-supplied cb (which returns ret)
wrapped(srv, requiredScopes, args, ret) ==
    LET context == getRequestContext(srv)
    IN  IF context = None \/ context.authInfo = None
        THEN [result |-> Thrown(AuthRequiredError), calls |-> <<>>]
        ELSE LET missing == MissingScopes(requiredScopes, context.authInfo.scopes)
             IN  IF Len(requiredScopes) > 0 /\ Len(missing) > 0
                 THEN [result |-> Thrown(ToolScopeError(requiredScopes,
                                                        context.authInfo.scopes, missing)),
                       calls |-> <<>>]
                 ELSE [result |-> Returned(ret),
                       calls |-> << [args |-> args, authInfo |-> context.authInfo,
                                     descopeConfig |-> context.descopeConfig] >>]

ToolArgs == { <<"x">> }
CbResults == { <<"resA">>, <<"resB">> }

\* next() runs the /mcp handler: server, context and tools, up to server.connect
McpHandlerStart(r) ==
    /\ pc[r] = "next"
    /\ server' = [server EXCEPT ![r] = McpServerFor(req[r], opts.outboundTokenConfig)]
    /\ pc' = [pc EXCEPT ![r] = "connected"]
    /\ UNCHANGED <<opts, toolScopes, hdr, rawTok, session, req, res, nextCalls,
                   validateCalls, toolOutcome, cbLog, xVars, bVars, lifeVars, provVars>>

\* transport.handleRequest dispatches the request's tools/call to the tool
ToolCall(r) ==
    /\ pc[r] = "connected"
    /\ \E args \in ToolArgs, ret \in CbResults :
        LET w == wrapped(server[r], toolScopes, args, ret)
        IN  /\ toolOutcome' = [toolOutcome EXCEPT ![r] = w.result]
            /\ cbLog' = [cbLog EXCEPT ![r] = @ \o w.calls]
    /\ pc' = [pc EXCEPT ![r] = "called"]
    /\ UNCHANGED <<opts, toolScopes, hdr, rawTok, session, req, res, nextCalls,
                   validateCalls, server, xVars, bVars, lifeVars, provVars>>

----------------------------------------------------------------------------
(* Outbound token exchange: mcp-core outbound.ts and utils/outboundToken.ts *)

Null == [k |-> "null"]

\* a call that goes on to the authority: which function, with which arguments
Fetch(path, args) == [k |-> "fetch", path |-> path, args |-> args]
Done(result) == [k |-> "done", result |-> result]

\* the payload JSON.parse(Buffer.from(part, "base64")) yields; None when it throws
JwtPayload(part) ==
    CASE part = <<"p_sub">>   -> [sub |-> Str(<<"user-1">>), userId |-> None,
                                  user_id |-> None, clientId |-> None]
      [] part = <<"p_cid">>   -> [sub |-> None, userId |-> None,
                                  user_id |-> None, clientId |-> Str(<<"jwt-client">>)]
      [] part = <<"p_empty">> -> [sub |-> None, userId |-> None,
                                  user_id |-> None, clientId |-> None]
      [] OTHER                -> None

\* a || b
Or(a, b) == IF Truthy(a) THEN a ELSE b

\* extractUserIdFromAuthInfo(authInfo) for an authInfo that is there
extractUserIdFromAuthInfo(authInfo) ==
    LET parts == SplitOn(authInfo.token.s, ".")
        payload == IF Len(parts) >= 2 THEN JwtPayload(parts[2]) ELSE None
    IN  IF payload = None
        THEN authInfo.clientId
        ELSE Or(payload.sub, Or(payload.userId, Or(payload.user_id, payload.clientId)))

\* createAuthenticatedDescopeClient(config, userToken) throws: there is no
\* config to read the projectId from, or the SDK refuses a missing projectId
ClientThrows(config) == config = None \/ ~Truthy(config.projectId)

\* scopes?.length, scopes && scopes.length > 0
HasScopes(scopes) == scopes.k = "arr" /\ Len(scopes.a) > 0

\* mutant: the requested scopes are ignored
FetchCall_AlwaysUnscoped(appId, userId, scopes) ==
    Fetch("fetchToken", [appId |-> appId, userId |-> userId])

FetchCall(appId, userId, scopes) ==
    IF HasScopes(scopes)
    THEN Fetch("fetchTokenByScopes", [appId |-> appId, userId |-> userId, scopes |-> scopes.a])
    ELSE Fetch("fetchToken", [appId |-> appId, userId |-> userId])

TypeError == [cls |-> "TypeError", message |-> Text("Cannot read properties of undefined")]

\* mcp-core getOutboundToken, up to its await
getOutboundToken_core(appId, authInfo, config, scopes) ==
    IF authInfo = None \/ ~Truthy(authInfo.token)
    THEN Done(Returned(Null))
    ELSE IF ClientThrows(config)
    THEN Done(Returned(Null))
    ELSE FetchCall(appId, authInfo.userId, scopes)

\* DescopeTokenManager.getOutboundToken(authInfo, appId, scopes), up to its await
DescopeTokenManager_getOutboundToken(appId, authInfo, config, scopes) ==
    IF authInfo = None
    THEN Done(Returned(Null))
    ELSE getOutboundToken_core(appId, authInfo, config, scopes)

\* mcp-express getOutboundToken, up to its await: authInfo is read before the try
getOutboundToken_express(appId, authInfo, config, scopes) ==
    IF authInfo = None
    THEN Done(Thrown(TypeError))
    ELSE IF ClientThrows(config)
    THEN Done(Returned(Null))
    ELSE FetchCall(appId, extractUserIdFromAuthInfo(authInfo), scopes)

\* mutant: the access token of the payload is not read
AccessTokenOf_None(o) == None

\* result.data?.accessToken
AccessTokenOf(o) == IF o.data = None THEN None ELSE o.data.accessToken

\* after the await, mcp-core: catch, !result.ok, result.data?.accessToken ?? null
Settle_core(o) ==
    IF o.k = "throw" THEN Returned(Null)
    ELSE IF ~o.ok THEN Returned(Null)
    ELSE IF AccessTokenOf(o) = None THEN Returned(Null)
    ELSE Returned(AccessTokenOf(o))

\* after the await, mcp-express: catch, !result.ok, result.data?.accessToken || null
Settle_express(o) ==
    IF o.k = "throw" THEN Returned(Null)
    ELSE IF ~o.ok THEN Returned(Null)
    ELSE IF ~Truthy(AccessTokenOf(o)) THEN Returned(Null)
    ELSE Returned(AccessTokenOf(o))

ExchangeImpls == {"core", "manager", "express"}

Prefix(impl, appId, authInfo, config, scopes) ==
    CASE impl = "core"    -> getOutboundToken_core(appId, authInfo, config, scopes)
      [] impl = "manager" -> DescopeTokenManager_getOutboundToken(appId, authInfo, config, scopes)
      [] OTHER            -> getOutboundToken_express(appId, authInfo, config, scopes)

Settle(impl, o) == IF impl = "express" THEN Settle_express(o) ELSE Settle_core(o)

XTokens ==
    { <<"opaque">>, <<"h", ".", "p_sub", ".", "sig">>, <<"h", ".", "p_cid", ".", "sig">>,
      <<"h", ".", "p_empty", ".", "sig">> }

\* the principal handed to the exchange: absent, or with and without a userId
XAuthInfos ==
    {None} \cup
    [token : {Str(x) : x \in XTokens}, clientId : {Str(<<"test-client">>)},
     userId : {None, Str(<<"test-user">>)}, scopes : {<< <<"openid">> >>},
     expiresAt : ExpClaims]

XConfigs == {None, [k |-> "cfg", projectId |-> Str(<<"P1">>)], [k |-> "cfg", projectId |-> None]}
XScopes == {None, Arr(<<>>), Arr(<< <<"read">> >>)}
XAppIds == { <<"app-1">> }

\* how fetchToken / fetchTokenByScopes can settle
XOutcomes ==
    { [k |-> "throw"],
      [k |-> "result", ok |-> FALSE, data |-> None],
      [k |-> "result", ok |-> TRUE, data |-> None],
      [k |-> "result", ok |-> TRUE, data |-> [accessToken |-> None]],
      [k |-> "result", ok |-> TRUE, data |-> [accessToken |-> Str(<<"tok-1">>)]] }

\* an exchange function is called and runs up to its await, or to its end
ExchangeStart ==
    /\ xpc = "idle"
    /\ \E impl \in ExchangeImpls, appId \in XAppIds, authInfo \in XAuthInfos,
          config \in XConfigs, scopes \in XScopes :
        LET p == Prefix(impl, appId, authInfo, config, scopes)
        IN  /\ xcall' = [impl |-> impl, appId |-> appId, authInfo |-> authInfo,
                         config |-> config, scopes |-> scopes]
            /\ IF p.k = "done"
               THEN /\ xresult' = p.result
                    /\ xpc' = "done"
                    /\ UNCHANGED fetchLog
               ELSE /\ fetchLog' = Append(fetchLog, [path |-> p.path, args |-> p.args])
                    /\ xpc' = "fetching"
                    /\ UNCHANGED xresult
    /\ UNCHANGED <<opts, toolScopes, gateVars, mcpVars, bVars, xsettled, lifeVars, provVars>>

\* mutant: an authority call that threw is made once more
ExchangeSettle_Retry ==
    /\ xpc = "fetching"
    /\ \E o \in XOutcomes :
        /\ xsettled' = o
        /\ IF o.k = "throw" /\ Len(fetchLog) < 2
           THEN /\ fetchLog' = Append(fetchLog, fetchLog[1])
                /\ UNCHANGED <<xpc, xresult>>
           ELSE /\ xresult' = Settle(xcall.impl, o)
                /\ xpc' = "done"
                /\ UNCHANGED fetchLog
    /\ UNCHANGED <<opts, toolScopes, gateVars, mcpVars, bVars, xcall, lifeVars, provVars>>

\* the authority's call settles and the exchange function runs to its end
ExchangeSettle ==
    /\ xpc = "fetching"
    /\ \E o \in XOutcomes :
        /\ xsettled' = o
        /\ xresult' = Settle(xcall.impl, o)
    /\ xpc' = "done"
    /\ UNCHANGED <<opts, toolScopes, gateVars, mcpVars, bVars, xcall, fetchLog, lifeVars, provVars>>

----------------------------------------------------------------------------
(* The request context store and the tool binder, driven directly *)

MaxInvokes == 2

\* the servers contexts are attached to and tools are invoked on
Carriers == {1, 2}

PrincipalA ==
    [token |-> Str(<<"tokA">>), clientId |-> Str(<<"client-a">>),
     scopes |-> << <<"openid">> >>, expiresAt |-> 1700000000]
PrincipalB ==
    [token |-> Str(<<"h", ".", "p_sub", ".", "sig">>), clientId |-> Str(<<"client-b">>),
     scopes |-> << <<"s1">>, <<"openid">> >>, expiresAt |-> 1700000000]

DescopeConfig == [k |-> "cfg", projectId |-> Str(<<"P1">>)]

\* what attachRequestContext is called with: (authInfo, descopeConfig)
AttachInputs == { <<None, None>>, <<PrincipalA, None>>, <<PrincipalB, DescopeConfig>> }

\* the AuthInfo a middleware before the MCP handler may have left in req.authInfo
HandlerAuthInfos == {None, PrincipalA, PrincipalB}

\* getOutboundTokenFn of wrapped: the exchange function handed to cb, closed
\* over the authInfo and descopeConfig of the context (up to the await)
getOutboundTokenFn(extra, appId, scopes) ==
    IF Truthy(extra.descopeConfig)
    THEN getOutboundToken_express(appId, extra.authInfo, extra.descopeConfig, scopes)
    ELSE Done(Returned(Null))

\* new McpServer(...): a server with no context
NewCarrier(c) ==
    /\ server[c] = None
    /\ server' = [server EXCEPT ![c] = NewServer]
    /\ UNCHANGED <<opts, toolScopes, gateVars, toolOutcome, cbLog, xVars, bVars, lifeVars, provVars>>

\* attachRequestContext(server, authInfo, descopeConfig) on an existing server
Attach(c) ==
    /\ server[c] # None
    /\ \E in \in AttachInputs :
        /\ server' = [server EXCEPT ![c] = attachRequestContext(@, in[1], in[2])]
        /\ lastAttach' = [lastAttach EXCEPT ![c] = [authInfo |-> in[1], descopeConfig |-> in[2]]]
    /\ UNCHANGED <<opts, toolScopes, gateVars, toolOutcome, cbLog, xVars, invLog, scopeRun, lifeVars, provVars>>

\* the tool function registered on server c is invoked
Invoke(c) ==
    /\ server[c] # None
    /\ Len(invLog) < MaxInvokes
    /\ \E args \in ToolArgs, ret \in CbResults :
        LET w == wrapped(server[c], toolScopes, args, ret)
        IN  /\ toolOutcome' = [toolOutcome EXCEPT ![c] = w.result]
            /\ cbLog' = [cbLog EXCEPT ![c] = @ \o w.calls]
            /\ invLog' = Append(invLog, [carrier |-> c, bound |-> lastAttach[c],
                                         args |-> args, ret |-> ret,
                                         result |-> w.result, calls |-> w.calls])
    /\ UNCHANGED <<opts, toolScopes, gateVars, server, xVars, lastAttach, scopeRun, lifeVars, provVars>>

\* a request reaches the MCP handler with req.authInfo as an earlier middleware left it
HandlerEnter(r) ==
    /\ pc[r] = "idle"
    /\ \E a \in HandlerAuthInfos : req' = [req EXCEPT ![r] = [auth |-> None, authInfo |-> a]]
    /\ pc' = [pc EXCEPT ![r] = "next"]
    /\ UNCHANGED <<opts, toolScopes, hdr, rawTok, session, res, nextCalls, validateCalls,
                   mcpVars, xVars, bVars, lifeVars, provVars>>

\* the body of the 500 the MCP handler's catch answers with
McpInternalError ==
    [jsonrpc |-> "2.0", error |-> [code |-> "-32603", message |-> "Internal server error"]]

\* transport.handleRequest resolved: the handler registers its listener for
\* the "close" of the response, and returns
HandleReturn(r) ==
    /\ pc[r] = "called"
    /\ listener' = [listener EXCEPT ![r] = TRUE]
    /\ pc' = [pc EXCEPT ![r] = "listening"]
    /\ UNCHANGED <<opts, toolScopes, hdr, rawTok, session, req, res, nextCalls, validateCalls,
                   mcpVars, xVars, bVars, aborted, resClosed, provVars>>

\* server.connect or transport.handleRequest threw: the catch answers 500
HandleFail(r) ==
    /\ pc[r] \in {"connected", "called"}
    /\ res' = [res EXCEPT ![r] = Response(500, None, McpInternalError)]
    /\ pc' = [pc EXCEPT ![r] = "failed"]
    /\ UNCHANGED <<opts, toolScopes, hdr, rawTok, session, req, nextCalls, validateCalls,
                   mcpVars, xVars, bVars, lifeVars, provVars>>

\* the response emits "close", once: the listeners registered by then run, and
\* the handler's listener closes the transport and the server
ResClose(r) ==
    /\ pc[r] \in {"connected", "called", "listening", "failed"}
    /\ ~resClosed[r]
    /\ resClosed' = [resClosed EXCEPT ![r] = TRUE]
    /\ server' = [server EXCEPT ![r].closed = listener[r]]
    /\ UNCHANGED <<opts, toolScopes, gateVars, toolOutcome, cbLog, xVars, bVars, aborted,
                   listener, provVars>>

----------------------------------------------------------------------------
(* The three scope checks on the same lists *)

MaxScopeLen == 2
ScopeNames == { <<"s1">>, <<"s2">>, <<"openid">> }
ScopeLists == SeqsUpTo(ScopeNames, MaxScopeLen)

\* mutant: validateScopes accepts whatever is granted
validateScopes_AlwaysValid(authInfo, requiredScopes) == [isValid |-> TRUE]

\* validateScopes(authInfo, requiredScopes) of utils.ts
validateScopes(authInfo, requiredScopes) ==
    IF Len(requiredScopes) = 0 THEN [isValid |-> TRUE]
    ELSE LET userScopes == authInfo.scopes
             missingScopes == SelectSeq(requiredScopes, LAMBDA x : ~Includes(userScopes, x))
         IN  IF Len(missingScopes) > 0
             THEN [isValid |-> FALSE,
                   error |-> [text |-> "Missing required scopes", missing |-> missingScopes,
                              userScopes |-> JoinOrNone(userScopes)]]
             ELSE [isValid |-> TRUE]

RECURSIVE JoinSp(_)
\* list.join(" ")
JoinSp(list) ==
    IF list = <<>> THEN <<>>
    ELSE IF Len(list) = 1 THEN list[1]
    ELSE list[1] \o <<SP>> \o JoinSp(Tail(list))

\* a validated session whose scope claim grants the list
SessionGranting(granted) ==
    Resolved(<<"tokA">>,
             [aud |-> None, scope |-> Str(JoinSp(granted)), resource |-> None,
              azp |-> Str(<<"client-a">>), exp |-> 1700000000])

PrincipalGranted(granted) == [PrincipalA EXCEPT !.scopes = granted]

\* the gate's required-scope check of verifyAccessToken on the lists
GateScopeRun(granted, required) ==
    ScopeCheck(SessionGranting(granted), [requiredScopes |-> Arr(required)])

\* the binder's scope check on the lists: the tool function on a server whose
\* context holds a principal with the granted scopes
BinderScopeRun(granted, required) ==
    wrapped(attachRequestContext(NewServer, PrincipalGranted(granted), None),
            required, <<"x">>, <<"resA">>).result

\* the three checks are run on one pair of lists
RunScopeChecks ==
    /\ scopeRun = None
    /\ \E granted \in ScopeLists, required \in ScopeLists :
        scopeRun' = [granted |-> granted, required |-> required,
                     gate |-> GateScopeRun(granted, required),
                     binder |-> BinderScopeRun(granted, required),
                     validate |-> validateScopes(PrincipalGranted(granted), required)]
    /\ UNCHANGED <<opts, toolScopes, gateVars, mcpVars, xVars, lastAttach, invLog, lifeVars, provVars>>

----------------------------------------------------------------------------
(* provider.ts: the endpoints of the authorization server *)

\* new URL(fullPath, cleanBase): the URL and its search, empty at construction
Url(href) == [href |-> href, search |-> <<>>]

\* initializeOAuthEndpoints()
EndpointsAtConstruction ==
    [issuer        |-> Url(<<"https://api.descope.com/v1/apps/P1">>),
     authorization |-> Url(<<"https://api.descope.com/oauth2/v1/apps/authorize">>),
     token         |-> Url(<<"https://api.descope.com/oauth2/v1/apps/token">>),
     revocation    |-> Url(<<"https://api.descope.com/oauth2/v1/apps/revoke">>)]

\* the parameters of an /authorize request: req.query or req.body, in order
ParamPairs ==
    { <<"client_id", "c1">>, <<"scope", "s1">>, <<"scope", "">>,
      <<"state", "x">>, <<"state", "y">> }

AuthorizeParams ==
    { p \in SeqsUpTo(ParamPairs, 2) : \A i, j \in DOMAIN p : i # j => p[i][1] # p[j][1] }

MaxAuthorize == 2

\* if (!params.scope) params.scope = "openid"
WithDefaultScope(params) ==
    IF \E i \in DOMAIN params : params[i][1] = "scope"
    THEN [i \in DOMAIN params |->
            IF params[i][1] = "scope" /\ params[i][2] = ""
            THEN <<"scope", "openid">> ELSE params[i]]
    ELSE Append(params, <<"scope", "openid">>)

RECURSIVE UrlSearchParams(_)
\* new URLSearchParams(params).toString()
UrlSearchParams(params) ==
    IF params = <<>> THEN <<>>
    ELSE <<params[1][1], "=", params[1][2]>> \o
         (IF Len(params) = 1 THEN <<>> ELSE <<"&">> \o UrlSearchParams(Tail(params)))

\* url.toString()
UrlToString(url) == IF url.search = <<>> THEN url.href ELSE url.href \o <<"?">> \o url.search

\* authorizationHandler: router.all("/") for one request
Authorize ==
    /\ Len(redirects) < MaxAuthorize
    /\ \E params \in AuthorizeParams :
        LET search == UrlSearchParams(WithDefaultScope(params))
            targetUrl == [endpoints.authorization EXCEPT !.search = search]
        IN  /\ endpoints' = [endpoints EXCEPT !.authorization = targetUrl]
            /\ redirects' = Append(redirects, UrlToString(targetUrl))
    /\ UNCHANGED <<opts, toolScopes, gateVars, mcpVars, xVars, bVars, lifeVars, coreRun>>

----------------------------------------------------------------------------
(* mcp-core scopes.ts *)

NoAuthInfoError == [isValid |-> FALSE, error |-> Text("No authentication info provided")]

\* validateScopes(authInfo, requiredScopes) of mcp-core
validateScopes_core(authInfo, requiredScopes) ==
    IF authInfo = None THEN NoAuthInfoError
    ELSE IF Len(requiredScopes) = 0 THEN [isValid |-> TRUE]
    ELSE LET missing == SelectSeq(requiredScopes, LAMBDA x : ~Includes(authInfo.scopes, x))
         IN  IF Len(missing) > 0
             THEN [isValid |-> FALSE,
                   error |-> [text |-> "Missing required scopes", missing |-> missing,
                              userScopes |-> JoinOrNone(authInfo.scopes)]]
             ELSE [isValid |-> TRUE]

\* authInfo?.scopes?.includes(scope) || false
hasScope_core(authInfo, scope) ==
    IF authInfo = None THEN FALSE ELSE Includes(authInfo.scopes, scope)

\* hasAnyScope(authInfo, scopes) of mcp-core
hasAnyScope_core(authInfo, scopes) ==
    IF authInfo = None \/ Len(scopes) = 0 THEN TRUE
    ELSE \E i \in DOMAIN scopes : hasScope_core(authInfo, scopes[i])

\* hasAllScopes(authInfo, scopes) of mcp-core
hasAllScopes_core(authInfo, scopes) ==
    IF authInfo = None \/ Len(scopes) = 0 THEN TRUE
    ELSE \A i \in DOMAIN scopes : hasScope_core(authInfo, scopes[i])

\* the AuthInfo of mcp-core: the principal with a userId
CoreAuthInfos ==
    {None} \cup
    { [token |-> Str(<<"test-token">>), clientId |-> Str(<<"test-client">>),
       userId |-> Str(<<"test-user">>), scopes |-> g, expiresAt |-> 1700000000] :
      g \in ScopeLists }

\* the four helpers are run on one authInfo and one list of scopes
RunCoreHelpers ==
    /\ coreRun = None
    /\ \E authInfo \in CoreAuthInfos, scopes \in ScopeLists :
        coreRun' = [authInfo |-> authInfo, scopes |-> scopes,
                    validate |-> validateScopes_core(authInfo, scopes),
                    hasScope |-> [i \in DOMAIN scopes |-> hasScope_core(authInfo, scopes[i])],
                    hasAny |-> hasAnyScope_core(authInfo, scopes),
                    hasAll |-> hasAllScopes_core(authInfo, scopes)]
    /\ UNCHANGED <<opts, toolScopes, gateVars, mcpVars, xVars, bVars, lifeVars,
                   endpoints, redirects>>

----------------------------------------------------------------------------
(* Initial states *)

ToolScopeSets == { <<>>, << <<"s1">> >>, << <<"s1">>, <<"s2">> >> }

InitWith(O, T) ==
    /\ opts \in O
    /\ toolScopes \in T
    /\ pc = [r \in Reqs |-> "idle"]
    /\ hdr = [r \in Reqs |-> None]
    /\ rawTok = [r \in Reqs |-> None]
    /\ session = [r \in Reqs |-> None]
    /\ req = [r \in Reqs |-> NoReq]
    /\ res = [r \in Reqs |-> None]
    /\ nextCalls = [r \in Reqs |-> 0]
    /\ validateCalls = [r \in Reqs |-> 0]
    /\ server = [r \in Reqs |-> None]
    /\ toolOutcome = [r \in Reqs |-> None]
    /\ cbLog = [r \in Reqs |-> <<>>]
    /\ xpc = "idle"
    /\ xcall = None
    /\ xsettled = None
    /\ xresult = None
    /\ fetchLog = <<>>
    /\ lastAttach = [r \in Reqs |-> None]
    /\ invLog = <<>>
    /\ scopeRun = None
    /\ aborted = [r \in Reqs |-> FALSE]
    /\ listener = [r \in Reqs |-> FALSE]
    /\ resClosed = [r \in Reqs |-> FALSE]
    /\ endpoints = EndpointsAtConstruction
    /\ redirects = <<>>
    /\ coreRun = None

\* one request, every header, a few sessions
InitHeader == InitWith(FewOptions, {<<>>})
NextHeader == GateStart(1, AllHeaders) \/ GateResume(1, FewSessions(rawTok[1].s))
SpecHeader == InitHeader /\ [][NextHeader]_vars

\* one request, a few headers, every session and every policy
InitGate == InitWith(AllOptions, {<<>>})
NextGate == GateStart(1, FewHeaders) \/ GateResume(1, AllSessions(rawTok[1].s))
SpecGate == InitGate /\ [][NextGate]_vars

\* the /mcp route of the router: the gate, then the MCP handler, for every request
Init == InitWith(FewOptions, ToolScopeSets)
Next ==
    \E r \in Reqs :
        \/ GateStart(r, FewHeaders)
        \/ GateResume(r, FewSessions(rawTok[r].s))
        \/ McpHandlerStart(r)
        \/ ToolCall(r)
Spec == Init /\ [][Next]_vars

\* one call of an exchange function with every kind of argument
InitExchange == InitWith(FewOptions, {<<>>})
NextExchange == ExchangeStart \/ ExchangeSettle
SpecExchange == InitExchange /\ [][NextExchange]_vars

\* the context store and the binder, as their callers and tests drive them
InitBinder == InitWith({o \in FewOptions : o.outboundTokenConfig = None}, ToolScopeSets)
NextBinder == \E c \in Carriers : NewCarrier(c) \/ Attach(c) \/ Invoke(c)
SpecBinder == InitBinder /\ [][NextBinder]_vars

\* concurrent requests entering the MCP handler with req.authInfo set or not
InitHandler == InitWith(FewOptions, ToolScopeSets)
NextHandler == \E r \in Reqs : HandlerEnter(r) \/ McpHandlerStart(r) \/ ToolCall(r)
SpecHandler == InitHandler /\ [][NextHandler]_vars

\* the scope checks run on every pair of lists
InitScopes == InitWith({o \in FewOptions : o.outboundTokenConfig = None}, {<<>>})
NextScopes == RunScopeChecks
SpecScopes == InitScopes /\ [][NextScopes]_vars

\* one request through the gate and one exchange call
InitNoRetry == InitWith(FewOptions, {<<>>})
NextNoRetry ==
    \/ GateStart(1, FewHeaders)
    \/ GateResume(1, FewSessions(rawTok[1].s))
    \/ ExchangeStart
    \/ ExchangeSettle
SpecNoRetry == InitNoRetry /\ [][NextNoRetry]_vars

\* the /mcp route with clients that give up during verification
InitAbort == InitWith(FewOptions, {<<>>})
NextAbort ==
    \E r \in Reqs :
        \/ GateStart(r, FewHeaders)
        \/ Abort(r)
        \/ GateResume(r, FewSessions(rawTok[r].s))
        \/ McpHandlerStart(r)
SpecAbort == InitAbort /\ [][NextAbort]_vars

\* the MCP handler with the response's close and failures; every step that can
\* be taken is taken in the end, and every response closes in the end
InitLife == InitWith(FewOptions, {<<>>})
NextLife ==
    \E r \in Reqs :
        \/ HandlerEnter(r)
        \/ McpHandlerStart(r)
        \/ ToolCall(r)
        \/ HandleReturn(r)
        \/ HandleFail(r)
        \/ ResClose(r)
SpecLife ==
    /\ InitLife
    /\ [][NextLife]_vars
    /\ \A r \in Reqs :
          /\ WF_vars(McpHandlerStart(r))
          /\ WF_vars(ToolCall(r))
          /\ WF_vars(HandleReturn(r))
          /\ WF_vars(ResClose(r))

\* /authorize requests, one after the other
InitAuthorize == InitWith({o \in FewOptions : o.outboundTokenConfig = None}, {<<>>})
NextAuthorize == Authorize
SpecAuthorize == InitAuthorize /\ [][NextAuthorize]_vars

\* the scope helpers of mcp-core on every authInfo and list
InitCoreScopes == InitWith({o \in FewOptions : o.outboundTokenConfig = None}, {<<>>})
NextCoreScopes == RunCoreHelpers
SpecCoreScopes == InitCoreScopes /\ [][NextCoreScopes]_vars

----------------------------------------------------------------------------
(* What the properties speak of, stated without the operators of the code *)

Started(r) == pc[r] # "idle"
Finished(r) == pc[r] \notin {"idle", "verifying"}

\* the request went on to the next stage with a principal
Accepted(r) == req[r].auth # None /\ nextCalls[r] > 0

\* the gate answered with this status, error code and description
RejectedWith(r, status, code, text) ==
    /\ res[r] # None
    /\ res[r].status = status
    /\ res[r].body.error = code
    /\ res[r].body.error_description.text = text
    /\ res[r].www # None
    /\ res[r].www.error = code
    /\ res[r].www.error_description = res[r].body.error_description

\* an optional string claim or option that is there
Present(c) == c # None /\ c # Str(<<>>)

\* the claim is the expected string, or an array that contains it
Matches(c, expected) ==
    \/ c = expected
    \/ c.k = "arr" /\ \E i \in DOMAIN c.a : c.a[i] = expected.s

\* s[i..j] is a word of s: a maximal run of atoms without a space
IsWord(s, i, j) ==
    /\ i <= j
    /\ \A n \in i..j : s[n] # SP
    /\ i = 1 \/ s[i - 1] = SP
    /\ j = Len(s) \/ s[j + 1] = SP

\* the set of scopes a space-delimited scope claim grants
Granted(c) ==
    IF c.k = "str"
    THEN { SubSeq(c.s, q[1], q[2]) :
             q \in { p \in (1..Len(c.s)) \X (1..Len(c.s)) : IsWord(c.s, p[1], p[2]) } }
    ELSE {}

Range(f) == { f[i] : i \in DOMAIN f }

\* the scopes the policy requires
Required(o) == IF o.requiredScopes.k = "arr" THEN Range(o.requiredScopes.a) ELSE {}

AudienceOk(r) ==
    Present(opts.audience) => Matches(session[r].token.aud, opts.audience)
ScopesOk(r) == Required(opts) \subseteq Granted(session[r].token.scope)
ResourceOk(r) ==
    Present(opts.resourceIndicator) =>
        Matches(session[r].token.resource, opts.resourceIndicator)

----------------------------------------------------------------------------
(* C1 *)

\* C1: every request to /mcp that passed the gate has, before any tool runs, a
\* request context on its server whose principal is the one the gate produced,
\* so a bound tool never fails with "Authentication required" on such a request.
C1_ContextAttachedAfterGate ==
    \A r \in Reqs :
        /\ pc[r] \in {"connected", "called"} =>
              /\ Accepted(r)
              /\ getRequestContext(server[r]) # None
              /\ getRequestContext(server[r]).authInfo = req[r].auth
        /\ pc[r] = "called" => toolOutcome[r] # Thrown(AuthRequiredError)

----------------------------------------------------------------------------
(* C2 - C4: the gate and its policy checks *)

MissingHeaderText == "Missing Authorization header"
MalformedHeaderText == "Invalid Authorization header format, expected 'Bearer TOKEN'"
InvalidTokenText == "Failed to validate token"
AudienceTexts == {"Token missing audience claim", "Invalid token audience. Expected: "}
ResourceTexts == {"Token missing resource claim", "Invalid token resource. Expected: "}
InsufficientScopeText == "Missing required scopes: "

\* the position of the first space of s, or 0
FirstSpace(s) ==
    IF \E i \in 1..Len(s) : s[i] = SP
    THEN CHOOSE i \in 1..Len(s) : s[i] = SP /\ \A j \in 1..(i - 1) : s[j] # SP
    ELSE 0

\* the scheme of a header: what precedes its first space
Scheme(s) == IF FirstSpace(s) = 0 THEN s ELSE SubSeq(s, 1, FirstSpace(s) - 1)

\* everything that follows the first space; nothing when there is no space
AfterFirstSpace(s) ==
    IF FirstSpace(s) = 0 THEN <<>> ELSE SubSeq(s, FirstSpace(s) + 1, Len(s))

\* "bearer" in any letter case
IsBearer(scheme) == Len(scheme) = 1 /\ scheme[1] \in {"Bearer", "bEaReR"}

\* no Authorization header (an empty one counts as none)
NoHeader(h) == ~Present(h)

\* a header that is there but has another scheme or nothing after its first space
Malformed(h) == Present(h) /\ (~IsBearer(Scheme(h.s)) \/ AfterFirstSpace(h.s) = <<>>)

\* C2: a principal is attached and the next stage invoked only if the authority
\* verified the token and the configured audience, required-scope and resource
\* checks all passed; a rejected request, and one whose header is missing or
\* malformed, never has a principal attached.
C2_PrincipalOnlyIfVerified ==
    \A r \in Reqs :
        /\ (req[r].auth # None \/ nextCalls[r] > 0) =>
              /\ session[r].k = "resolved"
              /\ AudienceOk(r) /\ ScopesOk(r) /\ ResourceOk(r)
        /\ (res[r] # None \/ (Started(r) /\ (NoHeader(hdr[r]) \/ Malformed(hdr[r])))) =>
              /\ req[r].auth = None
              /\ nextCalls[r] = 0

C2_Witness ==
    \E r \in Reqs :
        /\ Accepted(r)
        /\ Present(opts.audience) /\ Required(opts) # {} /\ Present(opts.resourceIndicator)

\* C3: of several violated checks the first one in the order verification,
\* audience, required scopes, resource decides the failure: wrong audience with
\* a missing scope is the audience failure (401), a missing scope with a wrong
\* resource is InsufficientScope (403).
C3_FirstFailingCheckWins ==
    \A r \in Reqs :
        Finished(r) /\ session[r] # None =>
            IF session[r].k = "rejected"
            THEN RejectedWith(r, 401, "invalid_token", InvalidTokenText)
            ELSE IF ~AudienceOk(r)
            THEN \E x \in AudienceTexts : RejectedWith(r, 401, "invalid_token", x)
            ELSE IF ~ScopesOk(r)
            THEN RejectedWith(r, 403, "insufficient_scope", InsufficientScopeText)
            ELSE IF ~ResourceOk(r)
            THEN \E x \in ResourceTexts : RejectedWith(r, 401, "invalid_token", x)
            ELSE res[r] = None \/ res[r].status \notin {401, 403}

C3_Witness ==
    \E r \in Reqs :
        /\ Finished(r) /\ session[r].k = "resolved"
        /\ ~AudienceOk(r) /\ ~ScopesOk(r) /\ ~ResourceOk(r)
        /\ res[r].status = 401

\* C4: a verified token that passes the audience check and lacks a scope of a
\* non-empty requiredScopes is rejected with InsufficientScope (403,
\* insufficient_scope), and the failure lists exactly the required scopes that
\* the token's scopes do not contain.
C4_InsufficientScope ==
    \A r \in Reqs :
        Finished(r) /\ session[r].k = "resolved" /\ AudienceOk(r) /\ ~ScopesOk(r) =>
            /\ RejectedWith(r, 403, "insufficient_scope", InsufficientScopeText)
            /\ ~Accepted(r)
            /\ LET listed == res[r].body.error_description.missing
               IN  /\ Range(listed) = Required(opts) \ Granted(session[r].token.scope)
                   /\ Cardinality(Range(listed)) = Len(listed)

C4_Witness ==
    \E r \in Reqs :
        /\ Finished(r) /\ session[r].k = "resolved" /\ AudienceOk(r)
        /\ Required(opts) \cap Granted(session[r].token.scope) # {}
        /\ Required(opts) \ Granted(session[r].token.scope) # {}
        /\ res[r].status = 403

----------------------------------------------------------------------------
(* C5 - C9: header checks, authority failures, audience and resource *)

\* C5: a request without an Authorization header is rejected with MissingHeader
\* (401, invalid_token); the next stage is not invoked and the authority is
\* never contacted.
C5_MissingHeader ==
    \A r \in Reqs :
        Started(r) /\ NoHeader(hdr[r]) =>
            /\ RejectedWith(r, 401, "invalid_token", MissingHeaderText)
            /\ nextCalls[r] = 0
            /\ validateCalls[r] = 0
            /\ req[r].auth = None

C5_Witness == \E r \in Reqs : Started(r) /\ hdr[r] = None /\ res[r] # None

TokenField(s) == Scheme(AfterFirstSpace(s))

C7_AuthorityFailureIsInvalidToken ==
    \A r \in Reqs :
        session[r].k = "rejected" =>
            /\ RejectedWith(r, 401, "invalid_token", InvalidTokenText)
            /\ res[r].body.error_description = Text(InvalidTokenText)
            /\ ~Accepted(r)

C7_Witness ==
    \E r \in Reqs :
        session[r] = Rejected("socket hang up") /\ res[r] # None /\ res[r].status = 401

AudienceFailure(r) ==
    res[r] # None /\ res[r].body.error_description.text \in AudienceTexts

\* C8: with expectedAudience configured a verified token passes the audience
\* check exactly if its audience claim is that string or an array containing
\* it; without an audience claim it is rejected as InvalidToken, with another
\* one as InvalidAudience, both 401. Without expectedAudience the audience
\* claim rejects nothing.
C8_AudienceCheck ==
    \A r \in Reqs :
        Finished(r) /\ session[r].k = "resolved" =>
            LET aud == session[r].token.aud
            IN  IF Present(opts.audience)
                THEN /\ ~AudienceFailure(r) <=> Matches(aud, opts.audience)
                     /\ ~Present(aud) =>
                            RejectedWith(r, 401, "invalid_token", "Token missing audience claim")
                     /\ Present(aud) /\ ~Matches(aud, opts.audience) =>
                            /\ RejectedWith(r, 401, "invalid_token",
                                            "Invalid token audience. Expected: ")
                            /\ res[r].body.error_description.expected = opts.audience.s
                ELSE ~AudienceFailure(r)

C8_Witness ==
    \E r \in Reqs :
        /\ Finished(r) /\ Present(opts.audience)
        /\ session[r].k = "resolved"
        /\ session[r].token.aud = Arr(<< <<"B">>, <<"A">> >>)
        /\ Accepted(r)

\* C9: with expectedResource configured a verified token that passed the
\* audience and scope checks is accepted exactly if its resource claim is that
\* string or an array containing it; without a resource claim it is rejected as
\* InvalidToken, with another one as InvalidResource, both 401.
C9_ResourceCheck ==
    \A r \in Reqs :
        /\ Finished(r) /\ session[r].k = "resolved"
        /\ Present(opts.resourceIndicator) /\ AudienceOk(r) /\ ScopesOk(r)
        => LET resource == session[r].token.resource
           IN  /\ Accepted(r) <=> Matches(resource, opts.resourceIndicator)
               /\ ~Present(resource) =>
                      RejectedWith(r, 401, "invalid_token", "Token missing resource claim")
               /\ Present(resource) /\ ~Matches(resource, opts.resourceIndicator) =>
                      RejectedWith(r, 401, "invalid_token",
                                   "Invalid token resource. Expected: ")

----------------------------------------------------------------------------
(* C10: outbound token exchange *)

\* the authority's success payload carries no access token
NoAccessToken(o) == o.k = "result" /\ o.ok /\ (o.data = None \/ o.data.accessToken = None)

\* C10: the exchange never throws: with the principal absent, the configuration
\* absent, the authority call throwing, the authority answering ok:false or
\* ok:true without an access token, in any combination, the call resolves to null.
C10_ExchangeNeverThrows ==
    xpc = "done" =>
        /\ xresult.k = "return"
        /\ ( \/ xcall.authInfo = None
             \/ xcall.config = None
             \/ xsettled.k = "throw"
             \/ xsettled.k = "result" /\ ~xsettled.ok
             \/ NoAccessToken(xsettled) ) => xresult = Returned(Null)

----------------------------------------------------------------------------
(* C11 - C14: what the exchange passes to the authority and what it returns *)

ExchangeDone == xpc = "done"
Contacted(path) == \E i \in 1..Len(fetchLog) : fetchLog[i].path = path

\* C11: an exchange call with an absent principal resolves to null, and neither
\* the scoped nor the unscoped path of the authority is contacted.
C11_AbsentPrincipal ==
    (ExchangeDone /\ xcall.authInfo = None) =>
        /\ xresult = Returned(Null)
        /\ fetchLog = <<>>

\* the configuration is one the authority's client can be made from
UsableConfig(config) == config # None /\ config.projectId # None

\* the one call of the authority the exchange call made is on the path, and with
\* the application and scopes, that the requested scopes select
OnePathAsRequested ==
    /\ Len(fetchLog) = 1
    /\ fetchLog[1].args.appId = xcall.appId
    /\ IF xcall.scopes # None /\ xcall.scopes.a # <<>>
       THEN /\ fetchLog[1].path = "fetchTokenByScopes"
            /\ fetchLog[1].args.scopes = xcall.scopes.a
       ELSE /\ fetchLog[1].path = "fetchToken"
            /\ DOMAIN fetchLog[1].args = {"appId", "userId"}

C13_SubjectId ==
    \A i \in 1..Len(fetchLog) :
        fetchLog[i].args.userId =
            IF xcall.authInfo.userId # None
            THEN xcall.authInfo.userId
            ELSE xcall.authInfo.clientId

\* the authority reported ok:true with an access token
OkWithToken(o) == o.k = "result" /\ o.ok /\ o.data # None /\ o.data.accessToken # None

----------------------------------------------------------------------------
(* C15 - C19: the request context store and the tool binder *)

\* the context the MCP handler attaches for request r: none without req.authInfo
ContextFor(r) ==
    IF req[r].authInfo # None
    THEN [authInfo |-> req[r].authInfo, descopeConfig |-> opts.outboundTokenConfig]
    ELSE None

\* C15: whatever the interleaving of the requests handled at the same time, a
\* tool invocation dispatched within a request reads the context attached for
\* that request, never the context of another one.
C15_ContextIsolation ==
    \A r \in Reqs :
        pc[r] = "called" =>
            LET ctx == ContextFor(r)
            IN  IF toolOutcome[r].k = "return"
                THEN /\ ctx # None
                     /\ Len(cbLog[r]) = 1
                     /\ cbLog[r][1].authInfo = ctx.authInfo
                     /\ cbLog[r][1].descopeConfig = ctx.descopeConfig
                ELSE IF toolOutcome[r] = Thrown(AuthRequiredError)
                THEN ctx = None
                ELSE /\ ctx # None
                     /\ toolOutcome[r].error.message.userScopes = ctx.authInfo.scopes

C15_Witness ==
    /\ pc[1] = "called"
    /\ pc[2] = "connected"
    /\ req[1].authInfo = PrincipalA
    /\ getRequestContext(server[2]) # None
    /\ getRequestContext(server[2]).authInfo = PrincipalB
    /\ toolOutcome[1].k = "return"
    /\ cbLog[1][1].authInfo = PrincipalA

\* C16: after any sequence of attach operations on any carriers, read(c) gives
\* the principal and exchange configuration of the latest attach on carrier c,
\* and undefined for a carrier attach was never called on.
C16_ReadLatestAttach ==
    \A c \in Carriers :
        server[c] # None => getRequestContext(server[c]) = lastAttach[c]

C16_Witness ==
    \E c, d \in Carriers :
        /\ server[d] # None
        /\ lastAttach[d] = None
        /\ getRequestContext(server[d]) = None
        /\ \E i \in 1..Len(invLog) :
            /\ invLog[i].carrier = c
            /\ invLog[i].bound # None
            /\ invLog[i].bound # lastAttach[c]
        /\ getRequestContext(server[c]) = [authInfo |-> PrincipalB, descopeConfig |-> DescopeConfig]

\* the invocation was made on a carrier with a context that holds a principal
HasPrincipal(e) == e.bound # None /\ e.bound.authInfo # None

\* the required scopes of the tool the principal of the invocation lacks, in order
Lacking(e) ==
    SelectSeq(toolScopes, LAMBDA x : x \notin Range(e.bound.authInfo.scopes))

\* C17: a bound tool invoked on a carrier with no context, or with a context
\* without a principal, fails with AuthRequired and the wrapped handler is not
\* invoked; only that invocation fails: a later invocation on a carrier that
\* has a context succeeds.
C17_AuthRequired ==
    \A i \in 1..Len(invLog) :
        LET e == invLog[i]
        IN  /\ ~HasPrincipal(e) => (e.result = Thrown(AuthRequiredError) /\ e.calls = <<>>)
            /\ (HasPrincipal(e) /\ Lacking(e) = <<>>) => e.result.k = "return"

C17_Witness ==
    /\ Len(invLog) = 2
    /\ invLog[1].bound = None
    /\ invLog[1].result = Thrown(AuthRequiredError)
    /\ HasPrincipal(invLog[2])
    /\ invLog[2].result.k = "return"

\* C18: a bound tool with required scopes invoked for a principal whose scopes
\* do not contain them all fails with an error naming the required scopes, the
\* principal's scopes and exactly the missing ones, and the wrapped handler is
\* not invoked; with no required scopes the scope check never fails.
C18_BinderScopeCheck ==
    \A i \in 1..Len(invLog) :
        LET e == invLog[i]
        IN  HasPrincipal(e) =>
                IF Lacking(e) # <<>>
                THEN /\ e.result.k = "throw"
                     /\ e.result.error.message.required = toolScopes
                     /\ e.result.error.message.userScopes = e.bound.authInfo.scopes
                     /\ e.result.error.message.missing = Lacking(e)
                     /\ e.calls = <<>>
                ELSE e.result.k = "return"

C18_Witness ==
    \E i \in 1..Len(invLog) :
        /\ Len(toolScopes) = 2
        /\ HasPrincipal(invLog[i])
        /\ invLog[i].result.k = "throw"
        /\ Len(invLog[i].result.error.message.missing) = 1

\* C19: a bound tool invoked with a context and the scope check satisfied
\* invokes the wrapped handler exactly once, with the caller's arguments and an
\* extra carrying the principal of the context and an exchange function closed
\* over that principal and the exchange configuration, and returns what the
\* handler returned, unchanged.
C19_HandlerInvoked ==
    \A i \in 1..Len(invLog) :
        LET e == invLog[i]
        IN  (HasPrincipal(e) /\ Lacking(e) = <<>>) =>
                /\ Len(e.calls) = 1
                /\ e.calls[1].args = e.args
                /\ e.calls[1].authInfo = e.bound.authInfo
                /\ \A appId \in XAppIds, scopes \in XScopes :
                      getOutboundTokenFn(e.calls[1], appId, scopes) =
                          IF e.bound.descopeConfig = None
                          THEN Done(Returned(Null))
                          ELSE getOutboundToken_express(appId, e.bound.authInfo,
                                                        e.bound.descopeConfig, scopes)
                /\ e.result = Returned(e.ret)

C19_Witness ==
    \E i \in 1..Len(invLog) :
        /\ invLog[i].bound = [authInfo |-> PrincipalB, descopeConfig |-> DescopeConfig]
        /\ toolScopes = << <<"s1">> >>
        /\ invLog[i].result = Returned(<<"resB">>)
        /\ Len(invLog[i].calls) = 1

----------------------------------------------------------------------------
(* C20: the scope checks agree *)

GateMissing == IF scopeRun.gate = None THEN <<>> ELSE scopeRun.gate.error.message.missing
BinderMissing ==
    IF scopeRun.binder.k = "return" THEN <<>> ELSE scopeRun.binder.error.message.missing
ValidateMissing ==
    IF scopeRun.validate.isValid THEN <<>> ELSE scopeRun.validate.error.missing

\* C20: for every list of granted scopes and every list of required scopes, the
\* binder's scope check, the gate's required-scope check and validateScopes
\* accept or reject together and report the same set of missing scopes.
C20_ScopeChecksAgree ==
    scopeRun # None =>
        /\ (scopeRun.gate = None) = (scopeRun.binder.k = "return")
        /\ (scopeRun.gate = None) = scopeRun.validate.isValid
        /\ Range(GateMissing) = Range(BinderMissing)
        /\ Range(GateMissing) = Range(ValidateMissing)

C20_Witness ==
    /\ scopeRun # None
    /\ Len(scopeRun.required) = 2
    /\ ~scopeRun.validate.isValid
    /\ scopeRun.binder.k = "throw"
    /\ scopeRun.gate # None
    /\ Len(ValidateMissing) = 1

----------------------------------------------------------------------------
(* C21 - C23: repeated validation, retries, aborted requests *)

\* the authority answered request r with claims
Validated(r) == session[r] # None /\ session[r].k = "resolved"

C22_NoRetries ==
    /\ \A r \in Reqs : validateCalls[r] <= 1
    /\ Len(fetchLog) <= 1

C22_Witness ==
    /\ pc[1] = "responded"
    /\ session[1] = Rejected("session validation failed")
    /\ validateCalls[1] = 1
    /\ xpc = "done"
    /\ xsettled = [k |-> "throw"]
    /\ Len(fetchLog) = 1

\* C23: when the request is aborted while the verification is in flight, a
\* result that arrives afterwards is discarded: no principal is attached to the
\* aborted request and its next stage is not invoked.
C23_AbortDiscardsResult ==
    \A r \in Reqs :
        aborted[r] => (req[r].auth = None /\ nextCalls[r] = 0 /\ server[r] = None)

----------------------------------------------------------------------------
(* C24 - C26, C30: the gate's responses, the raw token, the client id *)

ResourceMetadataUrl == ServerUrl.origin \o <<"/.well-known/oauth-protected-resource">>

\* C24: every rejection answered with 401 or 403 carries a WWW-Authenticate
\* Bearer header with the error code, an error_description and a
\* resource_metadata parameter equal to the server's
\* /.well-known/oauth-protected-resource URL; a rejection caused by an
\* unexpected internal fault is answered with 500 and no such header.
C24_WwwAuthenticate ==
    \A r \in Reqs :
        res[r] # None =>
            /\ res[r].status \in {401, 403, 500}
            /\ res[r].status \in {401, 403} =>
                /\ res[r].www # None
                /\ res[r].www.scheme = "Bearer"
                /\ res[r].www.error = res[r].body.error
                /\ res[r].www.error =
                       IF res[r].status = 401 THEN "invalid_token" ELSE "insufficient_scope"
                /\ res[r].www.error_description = res[r].body.error_description
                /\ res[r].www.resource_metadata = ResourceMetadataUrl
            /\ res[r].status = 500 =>
                /\ res[r].www = None
                /\ res[r].body.error = "server_error"

C24_Witness ==
    /\ res[1] # None
    /\ res[1].status = 403
    /\ res[1].www # None
    /\ res[1].www.resource_metadata = ResourceMetadataUrl

\* C25: for a header that passes the format check, the raw token presented to
\* the authority is everything in the header after its first space: the header
\* is split at the first space only.
C25_TokenIsRestOfHeader ==
    \A r \in Reqs :
        rawTok[r] # None => rawTok[r].s = AfterFirstSpace(hdr[r].s)

\* every check of the policy passed for the validated token of request r
ChecksPass(r) == Validated(r) /\ AudienceOk(r) /\ ScopesOk(r) /\ ResourceOk(r)

\* C26: on success the principal's clientId is the token's authorized-party
\* claim. For a verified token that passes every check but lacks the claim, the
\* gate uses the tenant identifier as clientId or rejects with an AuthFailure;
\* it never goes on with an absent clientId and never answers 500.
C26_ClientId ==
    \A r \in Reqs :
        /\ (Accepted(r) /\ Present(session[r].token.azp)) =>
              req[r].auth.clientId = session[r].token.azp
        /\ (Finished(r) /\ ChecksPass(r) /\ ~Present(session[r].token.azp)) =>
              \/ Accepted(r) /\ req[r].auth.clientId = Str(ProjectId)
              \/ res[r] # None /\ res[r].status \in {401, 403}

\* C30: for every request the gate produces exactly one outcome: it invokes the
\* next stage exactly once and sends no response, or it sends one error
\* response and never invokes the next stage.
C30_OneOutcome ==
    \A r \in Reqs :
        IF Finished(r)
        THEN \/ nextCalls[r] = 1 /\ res[r] = None /\ pc[r] # "responded"
             \/ nextCalls[r] = 0 /\ res[r] # None /\ pc[r] = "responded"
        ELSE nextCalls[r] = 0 /\ res[r] = None

C30_Witness ==
    /\ pc[1] = "next"
    /\ nextCalls[1] = 1
    /\ res[1] = None
    /\ req[1].auth # None

----------------------------------------------------------------------------
(* C27: the end of a request *)

\* the transport and the server of request r were closed
Closed(r) == server[r] # None /\ server[r].closed

\* C27: for every request the MCP handler handles, the transport and server of
\* the request, and with them its context, are closed in the end once the
\* response has closed, also when the response closes before the handling of
\* the request returned and when the handling failed with an error.
C27_EventuallyClosed ==
    \A r \in Reqs : resClosed[r] ~> Closed(r)

----------------------------------------------------------------------------
(* C28, C29: the core scope helpers, the /authorize handler *)

\* C28: for an absent authInfo and any non-empty list of scopes, every scope
\* helper of the core package denies: validateScopes reports invalid, and
\* hasScope, hasAnyScope and hasAllScopes return false.
C28_AbsentAuthInfoDenied ==
    (coreRun # None /\ coreRun.authInfo = None /\ coreRun.scopes # <<>>) =>
        /\ ~coreRun.validate.isValid
        /\ \A i \in DOMAIN coreRun.hasScope : ~coreRun.hasScope[i]
        /\ ~coreRun.hasAny
        /\ ~coreRun.hasAll

\* C29: handling an /authorize request leaves the provider's authorization
\* endpoint and every other process-wide configuration value unchanged: after
\* any sequence of /authorize requests the endpoints are as at construction.
C29_EndpointsUnchanged ==
    endpoints = EndpointsAtConstruction

====
